---- MODULE Spec2Model ----
(***************************************************************************)
(* XDR codec of the ONC RPC v2 message envelope (eden/fs/nfs/rpc/Rpc.h).   *)
(*                                                                         *)
(* A value of one of the message types is constructed, serialized into a   *)
(* byte buffer, the buffer is possibly truncated or has one word           *)
(* overwritten (bytes from an untrusted peer), and is then deserialized.   *)
(*                                                                         *)
(* A uint32_t is the pair <<high 16 bits, low 16 bits>>, so that all 2^32  *)
(* values are represented without leaving the integers TLC computes with.  *)
(* A byte is a number in 0..255; a buffer is a sequence of bytes.          *)
(***************************************************************************)
EXTENDS Integers, Sequences, FiniteSets, TLC

VARIABLES pc, kind, value, buf, tamper, at, result

vars == <<pc, kind, value, buf, tamper, at, result>>

\* Bounds of the model.
MaxBody == 5
MaxGids == 2

(***************************************************************************)
(* Enumerations (Rpc.h:84-143)                                             *)
(***************************************************************************)
AUTH_NONE == 0
AUTH_SYS == 1
AUTH_UNIX == 1
AUTH_SHORT == 2
AUTH_DH == 3
RPCSEC_GSS == 6

\* auth_flavor mutated: the gap between AUTH_DH and RPCSEC_GSS is filled.
auth_flavor_dense == AUTH_NONE..RPCSEC_GSS

auth_flavor == {AUTH_NONE, AUTH_SYS, AUTH_UNIX, AUTH_SHORT, AUTH_DH, RPCSEC_GSS}

CALL == 0
REPLY == 1

msg_type == {CALL, REPLY}

MSG_ACCEPTED == 0
MSG_DENIED == 1

reply_stat == {MSG_ACCEPTED, MSG_DENIED}

SUCCESS == 0
PROG_UNAVAIL == 1
PROG_MISMATCH == 2
PROC_UNAVAIL == 3
GARBAGE_ARGS == 4
SYSTEM_ERR == 5

accept_stat ==
  {SUCCESS, PROG_UNAVAIL, PROG_MISMATCH, PROC_UNAVAIL, GARBAGE_ARGS, SYSTEM_ERR}

RPC_MISMATCH == 0
AUTH_ERROR == 1

\* reject_stat mutated: a third enumerator the switch has no case for.
reject_stat_wide == {RPC_MISMATCH, AUTH_ERROR, 2}

reject_stat == {RPC_MISMATCH, AUTH_ERROR}

AUTH_OK == 0
AUTH_BADCRED == 1
AUTH_REJECTEDCRED == 2
AUTH_BADVERF == 3
AUTH_REJECTEDVERF == 4
AUTH_TOOWEAK == 5
AUTH_INVALIDRESP == 6
AUTH_FAILED == 7
AUTH_KERB_GENERIC == 8
AUTH_TIMEEXPIRE == 9
AUTH_TKT_FILE == 10
AUTH_DECODE == 11
AUTH_NET_ADDR == 12
RPCSEC_GSS_CREDPROBLEM == 13
RPCSEC_GSS_CTXPROBLEM == 14

auth_stat ==
  {AUTH_OK, AUTH_BADCRED, AUTH_REJECTEDCRED, AUTH_BADVERF, AUTH_REJECTEDVERF,
   AUTH_TOOWEAK, AUTH_INVALIDRESP, AUTH_FAILED, AUTH_KERB_GENERIC,
   AUTH_TIMEEXPIRE, AUTH_TKT_FILE, AUTH_DECODE, AUTH_NET_ADDR,
   RPCSEC_GSS_CREDPROBLEM, RPCSEC_GSS_CTXPROBLEM}

kRPCVersion == 2

EnumTypes ==
  {"auth_flavor", "msg_type", "reply_stat", "accept_stat", "reject_stat",
   "auth_stat"}

Variants(T) ==
  CASE T = "auth_flavor" -> auth_flavor
    [] T = "msg_type" -> msg_type
    [] T = "reply_stat" -> reply_stat
    [] T = "accept_stat" -> accept_stat
    [] T = "reject_stat" -> reject_stat
    [] T = "auth_stat" -> auth_stat

(***************************************************************************)
(* Structures: the field lists of the EDEN_XDR_SERDE_DECL invocations and  *)
(* the declared type of every field.                                       *)
(***************************************************************************)
\* The field list of opaque_auth mutated: the fields in the other order.
Fields_opaque_auth_swapped == <<"body", "flavor">>

Fields_opaque_auth == <<"flavor", "body">>

\* The field list of call_body mutated: the last field is left out.
Fields_call_body_noverf == <<"rpcvers", "prog", "vers", "proc", "cred">>

Fields_call_body == <<"rpcvers", "prog", "vers", "proc", "cred", "verf">>

\* The field list of rpc_msg_call mutated: xid and mtype change places.
Fields_rpc_msg_call_swapped == <<"mtype", "xid", "cbody">>

Fields_rpc_msg_call == <<"xid", "mtype", "cbody">>

Fields_mismatch_info == <<"low", "high">>

Fields_accepted_reply == <<"verf", "stat">>

Fields_rpc_msg_reply == <<"xid", "mtype", "rbody">>

Fields_authsys_parms == <<"stamp", "machinename", "uid", "gid", "gids">>

StructTypes ==
  {"opaque_auth", "call_body", "rpc_msg_call", "mismatch_info",
   "accepted_reply", "rpc_msg_reply", "authsys_parms"}

Fields(T) ==
  CASE T = "opaque_auth" -> Fields_opaque_auth
    [] T = "call_body" -> Fields_call_body
    [] T = "rpc_msg_call" -> Fields_rpc_msg_call
    [] T = "mismatch_info" -> Fields_mismatch_info
    [] T = "accepted_reply" -> Fields_accepted_reply
    [] T = "rpc_msg_reply" -> Fields_rpc_msg_reply
    [] T = "authsys_parms" -> Fields_authsys_parms

OpaqueBytes == "vector_u8"

FieldType(T, name) ==
  CASE T = "opaque_auth" ->
         (CASE name = "flavor" -> "auth_flavor"
            [] name = "body" -> OpaqueBytes)
    [] T = "call_body" ->
         (CASE name \in {"rpcvers", "prog", "vers", "proc"} -> "uint32_t"
            [] name \in {"cred", "verf"} -> "opaque_auth")
    [] T = "rpc_msg_call" ->
         (CASE name = "xid" -> "uint32_t"
            [] name = "mtype" -> "msg_type"
            [] name = "cbody" -> "call_body")
    [] T = "mismatch_info" -> "uint32_t"
    [] T = "accepted_reply" ->
         (CASE name = "verf" -> "opaque_auth"
            [] name = "stat" -> "accept_stat")
    [] T = "rpc_msg_reply" ->
         (CASE name = "xid" -> "uint32_t"
            [] name = "mtype" -> "msg_type"
            [] name = "rbody" -> "reply_body")
    [] T = "authsys_parms" ->
         (CASE name \in {"stamp", "uid", "gid"} -> "uint32_t"
            [] name = "machinename" -> "string"
            [] name = "gids" -> "vector_u32")

(***************************************************************************)
(* Codec core (eden/fs/nfs/xdr/Xdr.h): primitives.                         *)
(***************************************************************************)
U32(n) == <<n \div 65536, n % 65536>>

MaxU32 == <<65535, 65535>>

Ok(v, p) == [ok |-> TRUE, val |-> v, pos |-> p]

Fail(e, p) == [ok |-> FALSE, err |-> e, pos |-> p]

pad(L) == (4 - (L % 4)) % 4

Zeros(n) == [i \in 1..n |-> 0]

serialize_u32(w) == <<w[1] \div 256, w[1] % 256, w[2] \div 256, w[2] % 256>>

deserialize_u32(b, p) ==
  IF p + 4 > Len(b)
    THEN Fail("TruncatedInput", p)
    ELSE Ok(<<b[p + 1] * 256 + b[p + 2], b[p + 3] * 256 + b[p + 4]>>, p + 4)

serialize_enum(e) == serialize_u32(U32(e))

deserialize_enum(T, b, p) ==
  LET r == deserialize_u32(b, p)
  IN  IF ~r.ok THEN r
      ELSE IF r.val[1] = 0 /\ r.val[2] \in Variants(T)
        THEN Ok(r.val[2], r.pos)
        ELSE Fail("InvalidEnumValue", p)

serialize_bytes(a) == serialize_u32(U32(Len(a))) \o a \o Zeros(pad(Len(a)))

deserialize_bytes(b, p) ==
  LET r == deserialize_u32(b, p)
  IN  IF ~r.ok THEN r
      ELSE IF r.val[1] > 0 \/ r.pos + r.val[2] + pad(r.val[2]) > Len(b)
        THEN Fail("TruncatedInput", r.pos)
        ELSE Ok(SubSeq(b, r.pos + 1, r.pos + r.val[2]),
                r.pos + r.val[2] + pad(r.val[2]))

RECURSIVE serialize_elems(_)
serialize_elems(a) ==
  IF a = <<>> THEN <<>> ELSE serialize_u32(Head(a)) \o serialize_elems(Tail(a))

serialize_vector_u32(a) == serialize_u32(U32(Len(a))) \o serialize_elems(a)

RECURSIVE deserialize_elems(_, _, _, _)
deserialize_elems(count, ret, b, p) ==
  IF count[1] = 0 /\ Len(ret) >= count[2]
    THEN Ok(ret, p)
    ELSE LET r == deserialize_u32(b, p)
         IN  IF ~r.ok THEN r
             ELSE deserialize_elems(count, Append(ret, r.val), b, r.pos)

deserialize_vector_u32(b, p) ==
  LET r == deserialize_u32(b, p)
  IN  IF ~r.ok THEN r ELSE deserialize_elems(r.val, <<>>, b, r.pos)

(***************************************************************************)
(* Discriminated unions: XdrVariant<reject_stat, mismatch_info, auth_stat> *)
(* and XdrVariant<reply_stat, accepted_reply, rejected_reply>.  A value is *)
(* [tag, v]; v is [alt |-> "monostate"] while unset, and otherwise names   *)
(* the alternative it holds and has the payload in the field of that name. *)
(***************************************************************************)
VariantTypes == {"rejected_reply", "reply_body"}

TagType(T) ==
  CASE T = "rejected_reply" -> "reject_stat"
    [] T = "reply_body" -> "reply_stat"

Alternatives(T) ==
  CASE T = "rejected_reply" -> {"mismatch_info", "auth_stat"}
    [] T = "reply_body" -> {"accepted_reply", "rejected_reply"}

monostate == [alt |-> "monostate"]

Holding(T, x) ==
  CASE T = "mismatch_info" -> [alt |-> T, mismatch_info |-> x]
    [] T = "auth_stat" -> [alt |-> T, auth_stat |-> x]
    [] T = "accepted_reply" -> [alt |-> T, accepted_reply |-> x]
    [] T = "rejected_reply" -> [alt |-> T, rejected_reply |-> x]

Payload(v) == v[v.alt]

Variant(t, payload) == [tag |-> t, v |-> payload]

(***************************************************************************)
(* XdrTrait<T>::serialize, XdrTrait<T>::deserialize and operator==.        *)
(***************************************************************************)
RECURSIVE serialize(_, _), deserialize(_, _, _), Eq(_, _, _)

\* EDEN_XDR_SER(name): serialize a.name into the appender.
EDEN_XDR_SER(T, name, a) == serialize(FieldType(T, name), a[name])

RECURSIVE SerFields(_, _, _)
SerFields(T, i, a) ==
  IF i > Len(Fields(T)) THEN <<>>
  ELSE EDEN_XDR_SER(T, Fields(T)[i], a) \o SerFields(T, i + 1, a)

serialize_struct(T, a) == SerFields(T, 1, a)

\* EDEN_XDR_DE mutated: a failed field is skipped and decoding goes on.
EDEN_XDR_DE_swallow(T, name, ret, b, p) ==
  LET r == deserialize(FieldType(T, name), b, p)
  IN  IF ~r.ok THEN Ok(ret, p) ELSE Ok(ret @@ (name :> r.val), r.pos)

\* EDEN_XDR_DE(name): ret.name = XdrTrait<decltype(ret.name)>::deserialize(cursor);
\* a failure (an exception of the cursor or of a nested deserialize) leaves
\* the function at once.
EDEN_XDR_DE(T, name, ret, b, p) ==
  LET r == deserialize(FieldType(T, name), b, p)
  IN  IF ~r.ok THEN r ELSE Ok(ret @@ (name :> r.val), r.pos)

RECURSIVE DeFields(_, _, _, _, _)

\* The field loop mutated: when a field fails, what was read so far is returned.
DeFields_partial(T, i, ret, b, p) ==
  IF i > Len(Fields(T)) THEN Ok(ret, p)
  ELSE LET r == EDEN_XDR_DE(T, Fields(T)[i], ret, b, p)
       IN  IF ~r.ok THEN Ok(ret, p) ELSE DeFields(T, i + 1, r.val, b, r.pos)

DeFields(T, i, ret, b, p) ==
  IF i > Len(Fields(T)) THEN Ok(ret, p)
  ELSE LET r == EDEN_XDR_DE(T, Fields(T)[i], ret, b, p)
       IN  IF ~r.ok THEN r ELSE DeFields(T, i + 1, r.val, b, r.pos)

\* STRUCT ret; no field assigned yet.
NoValue == <<>>

deserialize_struct(T, b, p) == DeFields(T, 1, NoValue, b, p)

\* XdrTrait<call_body>::deserialize mutated: the version is checked in the codec.
deserialize_call_body_versioned(b, p) ==
  LET r == deserialize_struct("call_body", b, p)
  IN  IF r.ok /\ r.val["rpcvers"] # U32(kRPCVersion)
        THEN Fail("VersionMismatch", p)
        ELSE r

deserialize_call_body(b, p) == deserialize_struct("call_body", b, p)

\* EDEN_XDR_EQ(name): a.name == b.name &&
EDEN_XDR_EQ(T, name, a, b) == Eq(FieldType(T, name), a[name], b[name])

RECURSIVE EqFields(_, _, _, _)
EqFields(T, i, a, b) ==
  IF i > Len(Fields(T)) THEN TRUE
  ELSE EDEN_XDR_EQ(T, Fields(T)[i], a, b) /\ EqFields(T, i + 1, a, b)

Eq_struct(T, a, b) == EqFields(T, 1, a, b)

serialize_variant(T, a) ==
  serialize(TagType(T), a.tag)
    \o (IF a.v.alt = "monostate" THEN <<>> ELSE serialize(a.v.alt, Payload(a.v)))

Eq_variant(T, a, b) ==
  /\ a.tag = b.tag
  /\ a.v.alt = b.v.alt
  /\ a.v.alt # "monostate" => Eq(a.v.alt, Payload(a.v), Payload(b.v))

\* XdrTrait<rejected_reply>::deserialize mutated: the two cases read each
\* other's payload.
deserialize_rejected_reply_swapped(b, p) ==
  LET t == deserialize("reject_stat", b, p)
  IN  IF ~t.ok THEN t
      ELSE CASE t.val = RPC_MISMATCH ->
                  (LET r == deserialize("auth_stat", b, t.pos)
                   IN  IF ~r.ok THEN r
                       ELSE Ok(Variant(t.val, Holding("auth_stat", r.val)), r.pos))
             [] t.val = AUTH_ERROR ->
                  (LET r == deserialize("mismatch_info", b, t.pos)
                   IN  IF ~r.ok THEN r
                       ELSE Ok(Variant(t.val, Holding("mismatch_info", r.val)),
                               r.pos))
             [] OTHER -> Ok(Variant(t.val, monostate), t.pos)

deserialize_rejected_reply(b, p) ==
  LET t == deserialize("reject_stat", b, p)
  IN  IF ~t.ok THEN t
      ELSE CASE t.val = RPC_MISMATCH ->
                  (LET r == deserialize("mismatch_info", b, t.pos)
                   IN  IF ~r.ok THEN r
                       ELSE Ok(Variant(t.val, Holding("mismatch_info", r.val)),
                               r.pos))
             [] t.val = AUTH_ERROR ->
                  (LET r == deserialize("auth_stat", b, t.pos)
                   IN  IF ~r.ok THEN r
                       ELSE Ok(Variant(t.val, Holding("auth_stat", r.val)), r.pos))
             [] OTHER -> Ok(Variant(t.val, monostate), t.pos)

\* XdrTrait<reply_body>::deserialize mutated: the MSG_DENIED case breaks
\* without reading its payload.
deserialize_reply_body_nodenied(b, p) ==
  LET t == deserialize("reply_stat", b, p)
  IN  IF ~t.ok THEN t
      ELSE CASE t.val = MSG_ACCEPTED ->
                  (LET r == deserialize("accepted_reply", b, t.pos)
                   IN  IF ~r.ok THEN r
                       ELSE Ok(Variant(t.val, Holding("accepted_reply", r.val)),
                               r.pos))
             [] OTHER -> Ok(Variant(t.val, monostate), t.pos)

deserialize_reply_body(b, p) ==
  LET t == deserialize("reply_stat", b, p)
  IN  IF ~t.ok THEN t
      ELSE CASE t.val = MSG_ACCEPTED ->
                  (LET r == deserialize("accepted_reply", b, t.pos)
                   IN  IF ~r.ok THEN r
                       ELSE Ok(Variant(t.val, Holding("accepted_reply", r.val)),
                               r.pos))
             [] t.val = MSG_DENIED ->
                  (LET r == deserialize("rejected_reply", b, t.pos)
                   IN  IF ~r.ok THEN r
                       ELSE Ok(Variant(t.val, Holding("rejected_reply", r.val)),
                               r.pos))
             [] OTHER -> Ok(Variant(t.val, monostate), t.pos)

serialize(T, a) ==
  CASE T = "uint32_t" -> serialize_u32(a)
    [] T \in EnumTypes -> serialize_enum(a)
    [] T \in {"vector_u8", "string"} -> serialize_bytes(a)
    [] T = "vector_u32" -> serialize_vector_u32(a)
    [] T \in StructTypes -> serialize_struct(T, a)
    [] T \in VariantTypes -> serialize_variant(T, a)

deserialize(T, b, p) ==
  CASE T = "uint32_t" -> deserialize_u32(b, p)
    [] T \in EnumTypes -> deserialize_enum(T, b, p)
    [] T \in {"vector_u8", "string"} -> deserialize_bytes(b, p)
    [] T = "vector_u32" -> deserialize_vector_u32(b, p)
    [] T = "call_body" -> deserialize_call_body(b, p)
    [] T \in StructTypes \ {"call_body"} -> deserialize_struct(T, b, p)
    [] T = "rejected_reply" -> deserialize_rejected_reply(b, p)
    [] T = "reply_body" -> deserialize_reply_body(b, p)

Eq(T, a, b) ==
  CASE T \in StructTypes -> Eq_struct(T, a, b)
    [] T \in VariantTypes -> Eq_variant(T, a, b)
    [] OTHER -> a = b

(***************************************************************************)
(* The values a caller constructs, within the bounds.                      *)
(***************************************************************************)
Body(L, s) == [i \in 1..L |-> (s + i - 1) % 256]

Bodies == {Body(L, s) : L \in 0..MaxBody, s \in {0, 254}}

U32Samples == {U32(0), U32(2), U32(100003), MaxU32}

AuthSamples ==
  {[flavor |-> AUTH_NONE, body |-> <<>>],
   [flavor |-> RPCSEC_GSS, body |-> Body(2, 0)],
   [flavor |-> AUTH_SYS, body |-> Body(MaxBody, 254)]}

GidLists == {[i \in 1..n |-> U32(1000 * i)] : n \in 0..MaxGids} \cup {<<MaxU32>>}

CallSamples ==
  [rpcvers : {U32(kRPCVersion), MaxU32}, prog : {U32(100003)}, vers : {U32(3)},
   proc : {U32(0)}, cred : AuthSamples, verf : {[flavor |-> AUTH_NONE, body |-> <<>>]}]

RECURSIVE Values(_)
Values(T) ==
  CASE T = "opaque_auth" -> [flavor : auth_flavor, body : Bodies]
    [] T = "call_body" ->
         [rpcvers : U32Samples \cup {U32(3)}, prog : {U32(100003)},
          vers : {U32(3)}, proc : {U32(0), U32(1)},
          cred : AuthSamples, verf : AuthSamples]
    [] T = "rpc_msg_call" ->
         [xid : {U32(7)}, mtype : msg_type, cbody : CallSamples]
    [] T = "mismatch_info" -> [low : U32Samples, high : U32Samples]
    [] T = "accepted_reply" -> [verf : AuthSamples, stat : accept_stat]
    [] T = "rejected_reply" ->
         {Variant(RPC_MISMATCH, Holding("mismatch_info", m)) :
            m \in Values("mismatch_info")}
           \cup {Variant(AUTH_ERROR, Holding("auth_stat", s)) : s \in auth_stat}
    [] T = "reply_body" ->
         {Variant(MSG_ACCEPTED, Holding("accepted_reply", a)) :
            a \in Values("accepted_reply")}
           \cup {Variant(MSG_DENIED, Holding("rejected_reply", r)) :
                   r \in Values("rejected_reply")}
    [] T = "rpc_msg_reply" ->
         [xid : {U32(7), MaxU32}, mtype : msg_type,
          rbody : {b \in Values("reply_body") :
                     \/ b.tag = MSG_DENIED /\ Payload(b.v).tag = AUTH_ERROR
                     \/ b.tag = MSG_DENIED /\ Payload(Payload(b.v).v).low = U32(2)
                     \/ b.tag = MSG_ACCEPTED /\ Payload(b.v).stat = SUCCESS}]
    [] T = "authsys_parms" ->
         [stamp : {U32(1)}, machinename : {Body(L, 97) : L \in 0..MaxBody},
          uid : {U32(0), U32(1000)}, gid : {U32(0)}, gids : GidLists]

MessageTypes == StructTypes \cup VariantTypes

\* The words an untrusted peer may put in place of a word of the message.
CorruptWords ==
  {U32(0), U32(1), U32(2), U32(4), U32(5), U32(6), U32(7), U32(15), MaxU32}

Overwrite(b, p, w) ==
  [i \in 1..Len(b) |->
     IF i > p /\ i <= p + 4 THEN serialize_u32(w)[i - p] ELSE b[i]]

(***************************************************************************)
(* The state machine.                                                      *)
(***************************************************************************)
Init ==
  /\ pc = "idle"
  /\ kind = "none"
  /\ value = NoValue
  /\ buf = <<>>
  /\ tamper = "none"
  /\ at = 0
  /\ result = NoValue

\* The caller builds a value of one of the message types.
Construct ==
  /\ pc = "idle"
  /\ \E T \in MessageTypes : \E v \in Values(T) :
       /\ kind' = T
       /\ value' = v
  /\ pc' = "constructed"
  /\ UNCHANGED <<buf, tamper, at, result>>

\* XdrTrait<T>::serialize(appender, value)
Encode ==
  /\ pc = "constructed"
  /\ buf' = serialize(kind, value)
  /\ pc' = "encoded"
  /\ UNCHANGED <<kind, value, tamper, at, result>>

\* The peer sends only the first n bytes.
Truncate ==
  /\ pc = "encoded"
  /\ tamper = "none"
  /\ \E n \in 0..(Len(buf) - 1) :
       /\ buf' = SubSeq(buf, 1, n)
       /\ at' = n
  /\ tamper' = "truncated"
  /\ UNCHANGED <<pc, kind, value, result>>

\* The peer sends another word in place of the one at byte offset p.
Corrupt ==
  /\ pc = "encoded"
  /\ tamper = "none"
  /\ \E p \in {4 * k : k \in 0..((Len(buf) \div 4) - 1)} :
       \E w \in CorruptWords :
         /\ serialize_u32(w) # SubSeq(buf, p + 1, p + 4)
         /\ buf' = Overwrite(buf, p, w)
         /\ at' = p
  /\ tamper' = "corrupted"
  /\ UNCHANGED <<pc, kind, value, result>>

\* XdrTrait<T>::deserialize(cursor) on the received bytes.
Decode ==
  /\ pc = "encoded"
  /\ result' = deserialize(kind, buf, 0)
  /\ pc' = "decoded"
  /\ UNCHANGED <<kind, value, buf, tamper, at>>

Next == Construct \/ Encode \/ Truncate \/ Corrupt \/ Decode

Spec == Init /\ [][Next]_vars

(***************************************************************************)
(* Properties.                                                             *)
(***************************************************************************)
\* The word at byte offset p of b, read big-endian.
WordAt(b, p) == <<b[p + 1] * 256 + b[p + 2], b[p + 3] * 256 + b[p + 4]>>

HasWord(b, p) == p + 4 <= Len(b)

\* w is the ordinal of one of the numbers in S.
WordIn(w, S) == w[1] = 0 /\ w[2] \in S

FailedWith(r, e) == ~r.ok /\ r.err = e /\ DOMAIN r = {"ok", "err", "pos"}

\* The wire layout of each structure as the protocol lists it: the fields in
\* order, each with its type.
Layout(T) ==
  CASE T = "opaque_auth" -> <<<<"flavor", "auth_flavor">>, <<"body", "vector_u8">>>>
    [] T = "call_body" ->
         <<<<"rpcvers", "uint32_t">>, <<"prog", "uint32_t">>,
           <<"vers", "uint32_t">>, <<"proc", "uint32_t">>,
           <<"cred", "opaque_auth">>, <<"verf", "opaque_auth">>>>
    [] T = "rpc_msg_call" ->
         <<<<"xid", "uint32_t">>, <<"mtype", "msg_type">>,
           <<"cbody", "call_body">>>>
    [] T = "mismatch_info" -> <<<<"low", "uint32_t">>, <<"high", "uint32_t">>>>
    [] T = "accepted_reply" ->
         <<<<"verf", "opaque_auth">>, <<"stat", "accept_stat">>>>
    [] T = "rpc_msg_reply" ->
         <<<<"xid", "uint32_t">>, <<"mtype", "msg_type">>,
           <<"rbody", "reply_body">>>>
    [] T = "authsys_parms" ->
         <<<<"stamp", "uint32_t">>, <<"machinename", "string">>,
           <<"uid", "uint32_t">>, <<"gid", "uint32_t">>,
           <<"gids", "vector_u32">>>>

\* C1: decoding the bytes produced by encoding a value succeeds and yields a
\* value equal to it under the type's operator==.
RoundTrip ==
  (pc = "decoded" /\ tamper = "none")
    => (result.ok /\ Eq(kind, result.val, value))

RoundTripWitness ==
  /\ pc = "decoded"
  /\ tamper = "none"
  /\ kind = "rpc_msg_reply"
  /\ value.rbody.tag = MSG_DENIED
  /\ Payload(value.rbody.v).tag = RPC_MISMATCH
  /\ result.ok

\* C2: a reply_body or rejected_reply whose discriminant word is not 0 or 1
\* fails to decode with InvalidEnumValue, at the top level and where the
\* union is nested; no value is returned.
DiscriminantExhaustive ==
  pc = "decoded" =>
    /\ (kind \in VariantTypes /\ HasWord(buf, 0)
          /\ ~WordIn(WordAt(buf, 0), {0, 1}))
         => FailedWith(result, "InvalidEnumValue")
    /\ (kind = "reply_body" /\ HasWord(buf, 4)
          /\ WordAt(buf, 0) = U32(1) /\ ~WordIn(WordAt(buf, 4), {0, 1}))
         => FailedWith(result, "InvalidEnumValue")
    /\ (kind = "rpc_msg_reply" /\ HasWord(buf, 8)
          /\ WordIn(WordAt(buf, 4), {0, 1}) /\ ~WordIn(WordAt(buf, 8), {0, 1}))
         => FailedWith(result, "InvalidEnumValue")

DiscriminantWitness ==
  /\ pc = "decoded"
  /\ kind = "rejected_reply"
  /\ tamper = "corrupted"
  /\ at = 0
  /\ WordAt(buf, 0) = U32(2)
  /\ ~result.ok

\* C3: decoding a strict prefix of a valid encoding fails with
\* TruncatedInput, and the cursor stays inside the buffer.
TruncationSafe ==
  (pc = "decoded" /\ tamper = "truncated")
    => (FailedWith(result, "TruncatedInput") /\ result.pos <= Len(buf))

TruncationWitness ==
  /\ pc = "decoded"
  /\ tamper = "truncated"
  /\ kind = "call_body"
  /\ Len(buf) = Len(serialize(kind, value)) - 1
  /\ ~result.ok

\* The variants each enumeration declares on the wire.
DeclaredAuthFlavor == {0, 1, 2, 3, 6}

DeclaredMsgType == {0, 1}

DeclaredAcceptStat == 0..5

DeclaredAuthStat == 0..14

\* The encoded size of an opaque_auth: flavor, length word, body, padding.
AuthSize(a) == 4 + 4 + Len(a.body) + ((4 - (Len(a.body) % 4)) % 4)

\* The enum fields of a value: <<byte offset in its encoding, declared variants>>.
EnumSites(T, v) ==
  CASE T = "opaque_auth" -> {<<0, DeclaredAuthFlavor>>}
    [] T = "call_body" ->
         {<<16, DeclaredAuthFlavor>>, <<16 + AuthSize(v.cred), DeclaredAuthFlavor>>}
    [] T = "rpc_msg_call" ->
         {<<4, DeclaredMsgType>>, <<24, DeclaredAuthFlavor>>,
          <<24 + AuthSize(v.cbody.cred), DeclaredAuthFlavor>>}
    [] T = "accepted_reply" ->
         {<<0, DeclaredAuthFlavor>>, <<AuthSize(v.verf), DeclaredAcceptStat>>}
    [] T = "rejected_reply" ->
         IF v.tag = AUTH_ERROR THEN {<<4, DeclaredAuthStat>>} ELSE {}
    [] T = "reply_body" ->
         IF v.tag = MSG_ACCEPTED
           THEN {<<4, DeclaredAuthFlavor>>,
                 <<4 + AuthSize(Payload(v.v).verf), DeclaredAcceptStat>>}
           ELSE IF Payload(v.v).tag = AUTH_ERROR
             THEN {<<8, DeclaredAuthStat>>}
             ELSE {}
    [] T = "rpc_msg_reply" ->
         {<<4, DeclaredMsgType>>}
           \cup (IF v.rbody.tag = MSG_ACCEPTED
                   THEN {<<12, DeclaredAuthFlavor>>,
                         <<12 + AuthSize(Payload(v.rbody.v).verf),
                           DeclaredAcceptStat>>}
                   ELSE IF Payload(v.rbody.v).tag = AUTH_ERROR
                     THEN {<<16, DeclaredAuthStat>>}
                     ELSE {})
    [] OTHER -> {}

\* C4: a structure whose enum field holds a number that is no declared
\* variant fails to decode with InvalidEnumValue; a decoded value never
\* carries such a number.
UnknownEnumRejected ==
  pc = "decoded" =>
    /\ tamper = "corrupted" =>
         \A site \in EnumSites(kind, value) :
           (at = site[1] /\ ~WordIn(WordAt(buf, at), site[2]))
             => FailedWith(result, "InvalidEnumValue")
    /\ (result.ok /\ kind = "opaque_auth")
         => result.val.flavor \in DeclaredAuthFlavor
    /\ (result.ok /\ kind \in {"rpc_msg_call", "rpc_msg_reply"})
         => result.val.mtype \in DeclaredMsgType
    /\ (result.ok /\ kind = "accepted_reply")
         => /\ result.val.stat \in DeclaredAcceptStat
            /\ result.val.verf.flavor \in DeclaredAuthFlavor
    /\ (result.ok /\ kind = "rejected_reply" /\ result.val.v.alt = "auth_stat")
         => Payload(result.val.v) \in DeclaredAuthStat

UnknownEnumWitness ==
  /\ pc = "decoded"
  /\ tamper = "corrupted"
  /\ kind = "opaque_auth"
  /\ at = 0
  /\ WordAt(buf, 0) = U32(4)
  /\ ~result.ok

TagMatchesRejected(r) ==
  \/ r.tag = 0 /\ r.v.alt = "mismatch_info"
  \/ r.tag = 1 /\ r.v.alt = "auth_stat"

TagMatchesReply(r) ==
  \/ r.tag = 0 /\ r.v.alt = "accepted_reply"
  \/ r.tag = 1 /\ r.v.alt = "rejected_reply" /\ TagMatchesRejected(Payload(r.v))

\* C5: every union value decode returns, from any buffer, holds the payload
\* its tag selects: mismatch_info under RPC_MISMATCH, auth_stat under
\* AUTH_ERROR, accepted_reply under MSG_ACCEPTED, rejected_reply under
\* MSG_DENIED; the payload is never unset nor of another shape.
TagPayloadConsistent ==
  (pc = "decoded" /\ result.ok) =>
    /\ kind = "rejected_reply" => TagMatchesRejected(result.val)
    /\ kind = "reply_body" => TagMatchesReply(result.val)
    /\ kind = "rpc_msg_reply" => TagMatchesReply(result.val.rbody)

TagPayloadWitness ==
  /\ pc = "decoded"
  /\ result.ok
  /\ tamper = "corrupted"
  /\ kind = "reply_body"
  /\ at = 0
  /\ value.tag = MSG_ACCEPTED
  /\ result.val.tag = MSG_DENIED

\* The first failure met when the fields of a layout are decoded one after
\* the other from offset p; [ok |-> TRUE] when none fails.
RECURSIVE FirstFailure(_, _, _, _)
FirstFailure(layout, i, b, p) ==
  IF i > Len(layout) THEN [ok |-> TRUE]
  ELSE LET r == deserialize(layout[i][2], b, p)
       IN  IF ~r.ok THEN r ELSE FirstFailure(layout, i + 1, b, r.pos)

\* The payload type a discriminant selects.
Selected(T, tag) ==
  CASE T = "rejected_reply" /\ tag = 0 -> "mismatch_info"
    [] T = "rejected_reply" /\ tag = 1 -> "auth_stat"
    [] T = "reply_body" /\ tag = 0 -> "accepted_reply"
    [] T = "reply_body" /\ tag = 1 -> "rejected_reply"

\* C6: when a field of a structure or the payload of a union fails to
\* decode, the enclosing decode fails with that same error at that same
\* cursor position, and returns no value.
AllOrNothing ==
  pc = "decoded" =>
    /\ ~result.ok => DOMAIN result = {"ok", "err", "pos"}
    /\ kind \in StructTypes =>
         LET f == FirstFailure(Layout(kind), 1, buf, 0)
         IN  ~f.ok => result = f
    /\ kind \in VariantTypes =>
         LET t == deserialize(TagType(kind), buf, 0)
         IN  /\ ~t.ok => result = t
             /\ (t.ok /\ t.val \in {0, 1}) =>
                  LET r == deserialize(Selected(kind, t.val), buf, 4)
                  IN  ~r.ok => result = r
    /\ (kind = "rpc_msg_reply" /\ HasWord(buf, 12)
          /\ WordIn(WordAt(buf, 4), DeclaredMsgType)
          /\ WordAt(buf, 8) = U32(1) /\ WordAt(buf, 12) = U32(0))
         => LET r == deserialize("mismatch_info", buf, 16)
            IN  ~r.ok => result = r

AllOrNothingWitness ==
  /\ pc = "decoded"
  /\ kind = "rpc_msg_reply"
  /\ tamper = "truncated"
  /\ Len(buf) = 20
  /\ WordAt(buf, 8) = U32(1)
  /\ WordAt(buf, 12) = U32(0)
  /\ result = Fail("TruncatedInput", 20)

ScenarioAValue ==
  [rpcvers |-> U32(2), prog |-> U32(100003), vers |-> U32(3), proc |-> U32(0),
   cred |-> [flavor |-> 0, body |-> <<>>],
   verf |-> [flavor |-> 0, body |-> <<>>]]

\* C7 as stated: the call_body of scenario A (rpcvers 2, prog 100003, vers 3,
\* proc 0, two empty AUTH_NONE opaque_auth) encodes to exactly 40 bytes.
ScenarioA40 ==
  (pc = "encoded" /\ tamper = "none" /\ kind = "call_body"
     /\ value = ScenarioAValue)
    => Len(buf) = 40

\* C7 amended: the call_body of scenario A encodes to exactly 32 bytes, four
\* uint32_t of 4 bytes and two empty opaque_auth of 8 bytes each (flavor and
\* length word).
ScenarioA ==
  (pc = "encoded" /\ tamper = "none" /\ kind = "call_body"
     /\ value = ScenarioAValue)
    => Len(buf) = 32

ScenarioAWitness ==
  /\ pc = "encoded"
  /\ tamper = "none"
  /\ kind = "call_body"
  /\ value = ScenarioAValue
  /\ Len(buf) = 32

\* The encodings of the fields of a layout, one after the other.
RECURSIVE Concatenated(_, _, _)
Concatenated(layout, i, v) ==
  IF i > Len(layout) THEN <<>>
  ELSE serialize(layout[i][2], v[layout[i][1]]) \o Concatenated(layout, i + 1, v)

\* The fields of a layout decoded one after the other from offset p agree
\* with the fields of v, and the last one ends at offset e.
RECURSIVE ReadInOrder(_, _, _, _, _, _)
ReadInOrder(layout, i, b, p, v, e) ==
  IF i > Len(layout) THEN p = e /\ DOMAIN v = {layout[k][1] : k \in 1..Len(layout)}
  ELSE LET r == deserialize(layout[i][2], b, p)
       IN  /\ r.ok
           /\ r.val = v[layout[i][1]]
           /\ ReadInOrder(layout, i + 1, b, r.pos, v, e)

\* C8: the encoding of a structure is the concatenation of the encodings of
\* its fields in the listed order and nothing else, and a successful decode
\* read the fields in that order, each where the one before ended.
FieldOrder ==
  kind \in StructTypes =>
    /\ (pc \in {"encoded", "decoded"} /\ tamper = "none")
         => buf = Concatenated(Layout(kind), 1, value)
    /\ (pc = "decoded" /\ result.ok)
         => ReadInOrder(Layout(kind), 1, buf, 0, result.val, result.pos)

FieldOrderWitness ==
  /\ pc = "decoded"
  /\ kind = "rpc_msg_call"
  /\ tamper = "none"
  /\ value.mtype = REPLY
  /\ result.ok
  /\ WordAt(buf, 0) = U32(7)
  /\ WordAt(buf, 4) = U32(1)

\* C9: decoding a well-formed call_body or rpc_msg_call succeeds whatever
\* the value of rpcvers and returns it unchanged, and encoding writes it as
\* given.
VersionNotEnforced ==
  /\ (pc \in {"encoded", "decoded"} /\ tamper = "none" /\ kind = "call_body")
       => WordAt(buf, 0) = value.rpcvers
  /\ (pc = "decoded" /\ tamper = "none" /\ kind = "call_body")
       => (result.ok /\ result.val.rpcvers = value.rpcvers)
  /\ (pc = "decoded" /\ tamper = "none" /\ kind = "rpc_msg_call")
       => (result.ok /\ result.val.cbody.rpcvers = value.cbody.rpcvers)
  /\ (pc = "decoded" /\ tamper = "corrupted" /\ kind = "call_body" /\ at = 0)
       => (result.ok /\ result.val.rpcvers = WordAt(buf, 0)
             /\ result.val = [value EXCEPT !.rpcvers = WordAt(buf, 0)])

VersionWitness ==
  /\ pc = "decoded"
  /\ kind = "call_body"
  /\ tamper = "none"
  /\ value.rpcvers = MaxU32
  /\ result.ok
  /\ result.val.rpcvers # U32(2)

\* C10: an opaque or string field of length L occupies 4 + L + pad(L) bytes,
\* pad(L) = (4 - L % 4) % 4; every encoding has a length that is a multiple
\* of 4; decode consumes the padding and keeps it out of the value.
Alignment ==
  /\ (pc \in {"encoded", "decoded"} /\ tamper = "none")
       => Len(buf) % 4 = 0
  /\ (pc \in {"encoded", "decoded"} /\ tamper = "none" /\ kind = "opaque_auth")
       => LET L == Len(value.body)
          IN  /\ WordAt(buf, 4) = U32(L)
              /\ SubSeq(buf, 9, 8 + L) = value.body
              /\ Len(buf) = 4 + (4 + L + ((4 - (L % 4)) % 4))
  /\ (pc \in {"encoded", "decoded"} /\ tamper = "none" /\ kind = "authsys_parms")
       => LET L == Len(value.machinename)
              after == 4 + (4 + L + ((4 - (L % 4)) % 4))
          IN  /\ WordAt(buf, 4) = U32(L)
              /\ SubSeq(buf, 9, 8 + L) = value.machinename
              /\ WordAt(buf, after) = value.uid
              /\ Len(buf) = after + 8 + 4 + 4 * Len(value.gids)
  /\ (pc = "decoded" /\ tamper = "none" /\ kind = "opaque_auth")
       => /\ result.ok
          /\ result.val.body = value.body
          /\ result.pos = Len(buf)
  /\ (pc = "decoded" /\ tamper = "none" /\ kind = "authsys_parms")
       => /\ result.ok
          /\ result.val.machinename = value.machinename
          /\ result.pos = Len(buf)

AlignmentWitness ==
  /\ pc = "decoded"
  /\ tamper = "none"
  /\ kind = "opaque_auth"
  /\ Len(value.body) = 3
  /\ Len(buf) = 12
  /\ result.ok
  /\ Len(result.val.body) = 3

====
